---- MODULE Spec2Model ----
(***************************************************************************)
(* Universal Proxy Server (src/src/proxy.ts): the Express application with *)
(* the catch-all middleware on /proxy and the OPTIONS route on /proxy.     *)
(* One request is followed from its dispatch through the outbound fetch,   *)
(* the header relay and the piping of the target's body to the client.     *)
(***************************************************************************)
EXTENDS Integers, Sequences, FiniteSets, TLC

VARIABLES
    clients,    \* the connections on which a request may arrive
    pc,         \* per request: position of its handler invocation
    req,        \* per request: the inbound request (Express `req`)
    res,        \* per request: the client response (Express `res`)
    calls,      \* per request: the outbound fetch calls issued, in order
    proxyRes,   \* per request: what the outbound call settled with
    stream,     \* per request: the target's body stream (proxyRes.body)
    outcome,    \* per request: the branch of the handler that answered it
    fetchImpl,  \* the fetch the handler calls: node-fetch, or a stand-in
    proc        \* the process started from the command line: its arguments,
                \* its environment, the core's PORT and the port listened on

vars == <<clients, pc, req, res, calls, proxyRes, stream, outcome, fetchImpl, proc>>

\* Bound: the longest target body, in chunks.
MaxChunks == 2

Reqs == {1, 2}

-----------------------------------------------------------------------------
(* JavaScript values *)

Undefined == [t |-> "undefined"]
Null      == [t |-> "null"]
Str(s)    == [t |-> "string", v |-> s]
Num(n)    == [t |-> "number", v |-> n]
Arr(s)    == [t |-> "array", v |-> s]
Obj(kvs)  == [t |-> "object", v |-> kvs]
Err(msg)  == [t |-> "error", message |-> msg]
NaN       == [t |-> "nan"]

\* Mutant of Falsy: only a missing value counts, the empty string does not.
FalsyOnlyUndefined(v) == v.t = "undefined"

\* !v : undefined, null, the empty string, 0 and NaN are falsy.
Falsy(v) ==
    \/ v.t = "undefined"
    \/ v.t = "null"
    \/ v.t = "nan"
    \/ (v.t = "string" /\ v.v = "")
    \/ (v.t = "number" /\ v.v = 0)

-----------------------------------------------------------------------------
(* String functions *)

UpperChars == "ABCDEFGHIJKLMNOPQRSTUVWXYZ"
LowerChars == "abcdefghijklmnopqrstuvwxyz"

CharAt(s, i) == SubSeq(s, i, i)

IndexIn(c, alphabet) ==
    IF \E i \in 1..Len(alphabet) : CharAt(alphabet, i) = c
    THEN CHOOSE i \in 1..Len(alphabet) : CharAt(alphabet, i) = c
    ELSE 0

RECURSIVE MapChars(_, _, _)
MapChars(s, from, to) ==
    IF Len(s) = 0 THEN ""
    ELSE LET c == CharAt(s, 1)
             i == IndexIn(c, from)
         IN  (IF i = 0 THEN c ELSE CharAt(to, i))
                 \o MapChars(SubSeq(s, 2, Len(s)), from, to)

\* The strings whose case the handlers convert, converted once.
CasedStrings ==
    {"GET", "POST", "PUT", "PATCH", "DELETE", "OPTIONS",
     "Access-Control-Allow-Origin", "Access-Control-Allow-Headers",
     "Access-Control-Allow-Methods", "access-control-allow-methods",
     "ACCESS-CONTROL-ALLOW-HEADERS", "x-proxy-test", "Content-Type",
     "host", "content-type", "x-api-key", "x-bad"}

LowerCased == [s \in CasedStrings |-> MapChars(s, UpperChars, LowerChars)]
UpperCased == [s \in CasedStrings |-> MapChars(s, LowerChars, UpperChars)]

toLowerCase(s) ==
    IF s \in CasedStrings THEN LowerCased[s] ELSE MapChars(s, UpperChars, LowerChars)
toUpperCase(s) ==
    IF s \in CasedStrings THEN UpperCased[s] ELSE MapChars(s, LowerChars, UpperChars)

\* s.includes(sub) on strings
Contains(s, sub) ==
    \E i \in 1..(Len(s) - Len(sub) + 1) : SubSeq(s, i, i + Len(sub) - 1) = sub

Digits == "0123456789"

RECURSIVE NumToString(_)
NumToString(n) ==
    IF n < 10 THEN CharAt(Digits, n + 1)
    ELSE NumToString(n \div 10) \o CharAt(Digits, (n % 10) + 1)

\* The JSON text of a value the JSON body parser yields.
RECURSIVE JSONtext(_)
RECURSIVE JSONmembers(_)
RECURSIVE JSONelements(_)
JSONtext(v) ==
    CASE v.t = "null"   -> "null"
      [] v.t = "string" -> "\"" \o v.v \o "\""
      [] v.t = "number" -> NumToString(v.v)
      [] v.t = "array"  -> "[" \o JSONelements(v.v) \o "]"
      [] v.t = "object" -> "{" \o JSONmembers(v.v) \o "}"
JSONmembers(kvs) ==
    IF Len(kvs) = 0 THEN ""
    ELSE "\"" \o kvs[1][1] \o "\":" \o JSONtext(kvs[1][2])
            \o (IF Len(kvs) > 1 THEN "," ELSE "") \o JSONmembers(Tail(kvs))
JSONelements(vs) ==
    IF Len(vs) = 0 THEN ""
    ELSE JSONtext(vs[1])
            \o (IF Len(vs) > 1 THEN "," ELSE "") \o JSONelements(Tail(vs))

\* JSON.stringify(v): undefined has no JSON text and yields undefined.
JSONstringify(v) == IF v.t = "undefined" THEN Undefined ELSE Str(JSONtext(v))

-----------------------------------------------------------------------------
(* Header objects: a JavaScript object keyed by name *)

NoHeaders == [n \in {} |-> ""]

Put(h, k, v) == [n \in DOMAIN h \cup {k} |-> IF n = k THEN v ELSE h[n]]
Delete(h, k) == [n \in DOMAIN h \ {k} |-> h[n]]
Has(h, k)    == k \in DOMAIN h

-----------------------------------------------------------------------------
(* The client response: http.ServerResponse with Express's additions.      *)
(* headers maps the lower-cased name to <<name as given, value>>, the way  *)
(* Node keeps them; body is the sequence of chunks written so far; ends     *)
(* counts the times the response was completed.                            *)

NewResponse ==
    [statusCode |-> 200, headers |-> NoHeaders, body |-> <<>>, ended |-> FALSE, ends |-> 0]

setHeader(rs, name, value) ==
    [rs EXCEPT !.headers = Put(rs.headers, toLowerCase(name), <<name, value>>)]

status(rs, code) == [rs EXCEPT !.statusCode = code]

write(rs, chunk) == [rs EXCEPT !.body = Append(rs.body, chunk)]

end(rs) == [rs EXCEPT !.ended = TRUE, !.ends = @ + 1]

\* res.send(text): Content-Type defaults to text/html; a 204 or 304 response
\* is sent with no body and no Content-Type.
send(rs, text) ==
    IF rs.statusCode \in {204, 304}
    THEN end([rs EXCEPT !.headers = Delete(rs.headers, "content-type")])
    ELSE LET typed == IF Has(rs.headers, "content-type") THEN rs
                      ELSE setHeader(rs, "Content-Type", "text/html; charset=utf-8")
         IN  end(write(typed, text))

StatusText(code) == IF code = 204 THEN "No Content" ELSE NumToString(code)

sendStatus(rs, code) == send(status(rs, code), StatusText(code))

-----------------------------------------------------------------------------
(* Inputs: inbound requests *)

Methods == {"GET", "POST", "PUT", "PATCH", "DELETE", "OPTIONS"}

\* req.query.url: absent, empty, or a target URL
QueryUrls == {Undefined, Str(""), Str("https://example.com")}

\* req.headers, names lower-cased by Node's HTTP parser
InboundHeaders == {
    ("host" :> "localhost:8080"),
    ("host" :> "localhost:8080") @@ ("content-type" :> "text/plain"),
    ("host" :> "localhost:8080") @@ ("content-type" :> "application/json")
        @@ ("x-api-key" :> "k1"),
    ("x-api-key" :> "k1") }

ParsedBodies == { Obj(<< <<"foo", Str("bar")>> >>),
                  Arr(<< Num(12), Null, Obj(<<>>) >>) }

\* What express.json() leaves in req.body when it parsed nothing: an empty
\* object (body-parser 1.x) or undefined (body-parser 2.x).
UnparsedBodies == { Obj(<<>>), Undefined }

IsJson(h) == Has(h, "content-type") /\ h["content-type"] = "application/json"

Requests ==
    { q \in [method : Methods, url : QueryUrls, headers : InboundHeaders,
             body : ParsedBodies \cup UnparsedBodies] :
        IF IsJson(q.headers) THEN q.body \in ParsedBodies
                             ELSE q.body \in UnparsedBodies }

NoRequest == [method |-> "", url |-> Undefined, headers |-> NoHeaders, body |-> Undefined]

-----------------------------------------------------------------------------
(* Inputs: what the outbound call settles with *)

Statuses == {200, 201, 404, 500}

\* proxyRes.headers, in iteration order; each name occurs once whatever its case
TargetHeaderPool ==
    << <<"x-proxy-test", "42">>,
       <<"Access-Control-Allow-Origin", "abc">>,
       <<"access-control-allow-methods", "xyz">>,
       <<"ACCESS-CONTROL-ALLOW-HEADERS", "x-h">>,
       <<"Content-Type", "text/plain">> >>

RECURSIVE Pick(_, _, _)
Pick(pool, keep, i) ==
    IF i > Len(pool) THEN <<>>
    ELSE (IF i \in keep THEN <<pool[i]>> ELSE <<>>) \o Pick(pool, keep, i + 1)

TargetHeaders == { Pick(TargetHeaderPool, keep, 1) : keep \in SUBSET (1..Len(TargetHeaderPool)) }

\* A header whose value res.setHeader refuses (a line break in the value).
\* node-fetch drops such headers from its responses; a stand-in may keep them.
RefusedHeader == <<"x-bad", "a\nb">>

RefusedHeaders == { Append(hs, RefusedHeader) : hs \in TargetHeaders }
                    \cup { <<RefusedHeader>> \o hs : hs \in TargetHeaders }

Chunks == {"he", "llo"}

RECURSIVE SeqsUpTo(_, _)
SeqsUpTo(S, n) ==
    IF n = 0 THEN {<<>>}
    ELSE LET shorter == SeqsUpTo(S, n - 1)
         IN  shorter \cup { Append(b, c) : b \in {x \in shorter : Len(x) = n - 1}, c \in S }

TargetBodies == SeqsUpTo(Chunks, MaxChunks)

\* A resolved outbound call; hasBody is whether proxyRes.body is truthy,
\* pipeable whether it has a pipe method (a node-fetch body always has).
TargetResponses ==
    { t \in [settled : {"resolved"}, status : Statuses, headers : TargetHeaders,
             hasBody : BOOLEAN, pipeable : {TRUE}, body : TargetBodies] :
        ~t.hasBody => t.body = <<>> }

\* What a stand-in for fetch may resolve with besides: a header res.setHeader
\* refuses, or a body that is not a stream.
StandInResponses ==
    { t \in [settled : {"resolved"}, status : {200, 404}, headers : RefusedHeaders,
             hasBody : BOOLEAN, pipeable : {TRUE}, body : {<<>>, <<"he">>}] :
        ~t.hasBody => t.body = <<>> }
    \cup [settled : {"resolved"}, status : {200, 404}, headers : TargetHeaders,
          hasBody : {TRUE}, pipeable : {FALSE}, body : {<<>>}]

\* The inputs of the runs with several requests in flight.
FewRequests ==
    { q \in Requests :
        /\ q.method \in {"GET", "POST"}
        /\ q.url \in {Undefined, Str("https://example.com")}
        /\ IsJson(q.headers)
        /\ q.body = Obj(<< <<"foo", Str("bar")>> >>) }

FewResponses ==
    { t \in TargetResponses :
        /\ t.status \in {200, 500}
        /\ t.headers \in {<<>>, Pick(TargetHeaderPool, {1, 2}, 1)}
        /\ t.body \in {<<>>, <<"he", "llo">>} }

\* The values the outbound call may reject with.
Rejections == { Err("failfetch"), Err(""), Null, Str("boom") }

Pending == [settled |-> "pending"]

-----------------------------------------------------------------------------
(* Express routing *)

\* The layers of the application in registration order: app.use('/proxy', ..)
\* matches every method, app.options('/proxy', ..) matches OPTIONS.
RouteStack ==
    << [handler |-> "proxy", method |-> "*"],
       [handler |-> "preflight", method |-> "OPTIONS"] >>

LayerMatches(layer, method) == layer.method = "*" \/ layer.method = method

\* The first matching layer handles the request; neither handler calls next().
Dispatch(method) ==
    LET i == CHOOSE i \in 1..Len(RouteStack) :
                /\ LayerMatches(RouteStack[i], method)
                /\ \A j \in 1..(i - 1) : ~LayerMatches(RouteStack[j], method)
    IN  RouteStack[i].handler

-----------------------------------------------------------------------------
(* The handlers *)

MissingUrlMessage == "Missing url query parameter."

JsonMethods == {"POST", "PUT", "PATCH"}

\* Mutant of fetchOptions: the header is deleted under the name 'Host'.
fetchOptionsDeleteCapitalHost(q) ==
    LET base == [method |-> q.method, headers |-> Delete(q.headers, "Host"),
                 redirect |-> "follow", body |-> Undefined]
    IN  IF toUpperCase(q.method) \in JsonMethods
        THEN [base EXCEPT !.body = JSONstringify(q.body),
                          !.headers = Put(@, "content-type", "application/json")]
        ELSE base

\* The options handed to fetch; a body of undefined means no body is sent.
fetchOptions(q) ==
    LET base == [method |-> q.method, headers |-> Delete(q.headers, "host"),
                 redirect |-> "follow", body |-> Undefined]
    IN  IF toUpperCase(q.method) \in JsonMethods
        THEN [base EXCEPT !.body = JSONstringify(q.body),
                          !.headers = Put(@, "content-type", "application/json")]
        ELSE base

FetchCall(q) == [url |-> q.url.v, options |-> fetchOptions(q)]

setCorsHeaders(rs) ==
    setHeader(setHeader(setHeader(rs,
        "Access-Control-Allow-Origin", "*"),
        "Access-Control-Allow-Headers", "*"),
        "Access-Control-Allow-Methods", "*")

CorsHeaderNames ==
    {"access-control-allow-origin", "access-control-allow-headers",
     "access-control-allow-methods"}

\* Mutant of forwardHeaders: the name is compared without lower-casing it.
RECURSIVE forwardHeadersCaseSensitive(_, _)
forwardHeadersCaseSensitive(rs, hs) ==
    IF Len(hs) = 0 THEN rs
    ELSE LET name  == hs[1][1]
             value == hs[1][2]
         IN  forwardHeadersCaseSensitive(
                 IF name \notin CorsHeaderNames
                 THEN setHeader(rs, name, value) ELSE rs,
                 Tail(hs))

\* proxyRes.headers.forEach(..): copy each header that is not a CORS header
RECURSIVE forwardHeaders(_, _)
forwardHeaders(rs, hs) ==
    IF Len(hs) = 0 THEN rs
    ELSE LET name  == hs[1][1]
             value == hs[1][2]
         IN  forwardHeaders(
                 IF toLowerCase(name) \notin CorsHeaderNames
                 THEN setHeader(rs, name, value) ELSE rs,
                 Tail(hs))

\* Mutant of relayHead: a target status of 400 or more is answered as 502.
relayHeadBadGateway(rs, t) ==
    status(forwardHeaders(setCorsHeaders(rs), t.headers),
           IF t.status >= 400 THEN 502 ELSE t.status)

\* The success path up to the body: CORS headers, target headers, status.
relayHead(rs, t) == status(forwardHeaders(setCorsHeaders(rs), t.headers), t.status)

\* if (proxyRes.body): is there a body stream to pipe?
\* (the mutant never pipes)
hasStreamNever(t) == FALSE

hasStream(t) == t.hasBody

\* Mutant of errorMessage: the error's own message is never used.
errorMessageUnknownOnly(err) == "Unknown proxy error"

\* The catch block
errorMessage(err) == IF err.t = "error" THEN err.message ELSE "Unknown proxy error"

proxyError(rs, err) == send(status(rs, 500), "Proxy error: " \o errorMessage(err))

\* res.setHeader throws on a value with a character HTTP forbids.
InvalidHeaderValue(v) == Contains(v, "\n")

\* The first header whose copy throws, 0 when none does.
FirstRefused(hs) ==
    LET bad == { i \in 1..Len(hs) :
                    /\ toLowerCase(hs[i][1]) \notin CorsHeaderNames
                    /\ InvalidHeaderValue(hs[i][2]) }
    IN  IF bad = {} THEN 0 ELSE CHOOSE i \in bad : \A k \in bad : i <= k

HeaderError(name) == Err("Invalid character in header content [\"" \o name \o "\"]")

PipeError == Err("proxyRes.body.pipe is not a function")

\* Mutant of afterFetch: the CORS headers are set after the target's headers
\* have been copied.
afterFetchCorsLast(rs, t) ==
    LET k == FirstRefused(t.headers)
    IN  IF k > 0
        THEN [res |-> proxyError(
                        forwardHeaders(rs, SubSeq(t.headers, 1, k - 1)),
                        HeaderError(t.headers[k][1])),
              branch |-> "error", piping |-> FALSE]
        ELSE LET head == status(setCorsHeaders(forwardHeaders(rs, t.headers)), t.status)
             IN  IF ~hasStream(t)
                 THEN [res |-> end(head), branch |-> "passthrough", piping |-> FALSE]
                 ELSE IF t.pipeable
                 THEN [res |-> head, branch |-> "passthrough", piping |-> TRUE]
                 ELSE [res |-> proxyError(head, PipeError),
                       branch |-> "error", piping |-> FALSE]

\* Mutant of afterFetch: a body stream is piped before the headers and the
\* status are set.
afterFetchPipeBeforeHeaders(rs, t) ==
    LET k == FirstRefused(t.headers)
    IN  IF hasStream(t) /\ t.pipeable
        THEN [res |-> rs, branch |-> "passthrough", piping |-> TRUE]
        ELSE IF k > 0
        THEN [res |-> proxyError(
                        forwardHeaders(setCorsHeaders(rs), SubSeq(t.headers, 1, k - 1)),
                        HeaderError(t.headers[k][1])),
              branch |-> "error", piping |-> FALSE]
        ELSE IF ~hasStream(t)
        THEN [res |-> end(relayHead(rs, t)), branch |-> "passthrough", piping |-> FALSE]
        ELSE [res |-> proxyError(relayHead(rs, t), PipeError),
              branch |-> "error", piping |-> FALSE]

\* The try block after the outbound call resolved, with its catch: the
\* response as the handler leaves it, and the branch taken.
afterFetch(rs, t) ==
    LET k == FirstRefused(t.headers)
    IN  IF k > 0
        THEN [res |-> proxyError(
                        forwardHeaders(setCorsHeaders(rs), SubSeq(t.headers, 1, k - 1)),
                        HeaderError(t.headers[k][1])),
              branch |-> "error", piping |-> FALSE]
        ELSE IF ~hasStream(t)
        THEN [res |-> end(relayHead(rs, t)), branch |-> "passthrough", piping |-> FALSE]
        ELSE IF t.pipeable
        THEN [res |-> relayHead(rs, t), branch |-> "passthrough", piping |-> TRUE]
        ELSE [res |-> proxyError(relayHead(rs, t), PipeError),
              branch |-> "error", piping |-> FALSE]

\* app.options('/proxy', ..)
preflight(rs) == sendStatus(setCorsHeaders(rs), 204)

-----------------------------------------------------------------------------
(* State machine *)

NoStream == [state |-> "none", read |-> 0]

\* The requests that may arrive and what the outbound call may resolve with.
Inbound == IF Cardinality(clients) > 1 THEN FewRequests ELSE Requests

Resolutions ==
    IF Cardinality(clients) > 1 THEN FewResponses
    ELSE IF fetchImpl = "node-fetch" THEN TargetResponses
    ELSE TargetResponses \cup StandInResponses

\* No process was started from the command line.
NoProcess == [pc |-> "none"]

InitRequests ==
    /\ pc = [r \in Reqs |-> "idle"]
    /\ req = [r \in Reqs |-> NoRequest]
    /\ res = [r \in Reqs |-> NewResponse]
    /\ calls = [r \in Reqs |-> <<>>]
    /\ proxyRes = [r \in Reqs |-> Pending]
    /\ stream = [r \in Reqs |-> NoStream]
    /\ outcome = [r \in Reqs |-> "none"]

\* One request, fetch is node-fetch.
Init ==
    /\ clients = {1}
    /\ fetchImpl = "node-fetch"
    /\ proc = NoProcess
    /\ InitRequests

\* One request, fetch is a stand-in that may resolve with any object.
InitStandIn ==
    /\ clients = {1}
    /\ fetchImpl = "stand-in"
    /\ proc = NoProcess
    /\ InitRequests

\* Two requests in flight at once.
InitConcurrent ==
    /\ clients = Reqs
    /\ fetchImpl = "node-fetch"
    /\ proc = NoProcess
    /\ InitRequests

\* Mutant of Handle: the server takes a request only when no other request is
\* in flight.
HandleOneAtATime(r) ==
    /\ pc[r] = "idle"
    /\ \A o \in clients \ {r} : pc[o] \in {"idle", "done"}
    /\ \E q \in Inbound :
        /\ req' = [req EXCEPT ![r] = q]
        /\ IF Falsy(q.url)
           THEN /\ res' = [res EXCEPT ![r] = send(status(@, 400), MissingUrlMessage)]
                /\ pc' = [pc EXCEPT ![r] = "done"]
                /\ outcome' = [outcome EXCEPT ![r] = "missing"]
                /\ calls' = calls
           ELSE /\ calls' = [calls EXCEPT ![r] = Append(@, FetchCall(q))]
                /\ pc' = [pc EXCEPT ![r] = "fetching"]
                /\ outcome' = outcome
                /\ res' = res
    /\ UNCHANGED <<proc, clients, fetchImpl, proxyRes, stream>>

\* A request arrives at /proxy and runs in its handler up to the first await.
Handle(r) ==
    /\ pc[r] = "idle"
    /\ \E q \in Inbound :
        /\ req' = [req EXCEPT ![r] = q]
        /\ IF Dispatch(q.method) = "preflight"
           THEN /\ res' = [res EXCEPT ![r] = preflight(@)]
                /\ pc' = [pc EXCEPT ![r] = "done"]
                /\ outcome' = [outcome EXCEPT ![r] = "preflight"]
                /\ calls' = calls
           ELSE IF Falsy(q.url)
           THEN /\ res' = [res EXCEPT ![r] = send(status(@, 400), MissingUrlMessage)]
                /\ pc' = [pc EXCEPT ![r] = "done"]
                /\ outcome' = [outcome EXCEPT ![r] = "missing"]
                /\ calls' = calls
           ELSE /\ calls' = [calls EXCEPT ![r] = Append(@, FetchCall(q))]
                /\ pc' = [pc EXCEPT ![r] = "fetching"]
                /\ outcome' = outcome
                /\ res' = res
    /\ UNCHANGED <<proc, clients, fetchImpl, proxyRes, stream>>

\* await fetch(..) resolves: headers and status are relayed, then the body is
\* piped, or the response is ended when there is no body; a step that throws
\* lands in the catch block.
FetchResolve(r) ==
    /\ pc[r] = "fetching"
    /\ \E t \in Resolutions :
        LET after == afterFetch(res[r], t)
        IN  /\ proxyRes' = [proxyRes EXCEPT ![r] = t]
            /\ res' = [res EXCEPT ![r] = after.res]
            /\ outcome' = [outcome EXCEPT ![r] = after.branch]
            /\ IF after.piping
               THEN /\ stream' = [stream EXCEPT ![r] = [state |-> "flowing", read |-> 0]]
                    /\ pc' = [pc EXCEPT ![r] = "piping"]
               ELSE /\ stream' = stream
                    /\ pc' = [pc EXCEPT ![r] = "done"]
    /\ UNCHANGED <<proc, clients, fetchImpl, req, calls>>

\* Mutant of FetchReject: a rejected call is issued once more before the
\* catch block answers.
FetchRejectRetriesOnce(r) ==
    /\ pc[r] = "fetching"
    /\ IF Len(calls[r]) < 2
       THEN /\ calls' = [calls EXCEPT ![r] = Append(@, FetchCall(req[r]))]
            /\ UNCHANGED <<pc, res, proxyRes, outcome>>
       ELSE /\ \E err \in Rejections :
                /\ proxyRes' = [proxyRes EXCEPT ![r] = [settled |-> "rejected", error |-> err]]
                /\ res' = [res EXCEPT ![r] = proxyError(@, err)]
            /\ pc' = [pc EXCEPT ![r] = "done"]
            /\ outcome' = [outcome EXCEPT ![r] = "error"]
            /\ calls' = calls
    /\ UNCHANGED <<proc, clients, fetchImpl, req, stream>>

\* await fetch(..) rejects: the catch block answers 500.
FetchReject(r) ==
    /\ pc[r] = "fetching"
    /\ \E err \in Rejections :
        /\ proxyRes' = [proxyRes EXCEPT ![r] = [settled |-> "rejected", error |-> err]]
        /\ res' = [res EXCEPT ![r] = proxyError(@, err)]
    /\ pc' = [pc EXCEPT ![r] = "done"]
    /\ outcome' = [outcome EXCEPT ![r] = "error"]
    /\ UNCHANGED <<proc, clients, fetchImpl, req, calls, stream>>

\* pipe: a 'data' event of the target body writes the chunk to the response.
PipeData(r) ==
    /\ pc[r] = "piping"
    /\ stream[r].state = "flowing"
    /\ stream[r].read < Len(proxyRes[r].body)
    /\ res' = [res EXCEPT ![r] = write(@, proxyRes[r].body[stream[r].read + 1])]
    /\ stream' = [stream EXCEPT ![r].read = @ + 1]
    /\ UNCHANGED <<proc, clients, fetchImpl, pc, req, calls, proxyRes, outcome>>

\* pipe: the 'end' event of the target body ends the response.
PipeEnd(r) ==
    /\ pc[r] = "piping"
    /\ stream[r].state = "flowing"
    /\ stream[r].read = Len(proxyRes[r].body)
    /\ res' = [res EXCEPT ![r] = end(@)]
    /\ stream' = [stream EXCEPT ![r].state = "ended"]
    /\ pc' = [pc EXCEPT ![r] = "done"]
    /\ UNCHANGED <<proc, clients, fetchImpl, req, calls, proxyRes, outcome>>

\* The target body fails before its end: pipe leaves the response open.
StreamError(r) ==
    /\ pc[r] = "piping"
    /\ stream[r].state = "flowing"
    /\ stream' = [stream EXCEPT ![r].state = "errored"]
    /\ UNCHANGED <<proc, clients, fetchImpl, pc, req, res, calls, proxyRes, outcome>>

Next ==
    \/ \E r \in clients : Handle(r)
    \/ \E r \in clients : FetchResolve(r)
    \/ \E r \in clients : FetchReject(r)
    \/ \E r \in clients : PipeData(r)
    \/ \E r \in clients : PipeEnd(r)
    \/ \E r \in clients : StreamError(r)

Spec == Init /\ [][Next]_vars

\* The handler against a fetch that may resolve with any object.
SpecStandIn == InitStandIn /\ [][Next]_vars

\* Two requests handled concurrently.
SpecConcurrent == InitConcurrent /\ [][Next]_vars

-----------------------------------------------------------------------------
(* Start-up from the command line *)

\* The fallback port of the core and the default of the yargs option.
DefaultPort == 8080
YargsDefaultPort == 8080

\* Number(v) for undefined and for strings; of the numeric literals only
\* unsigned decimal integers are modelled, and '' is 0.
IsDigits(s) == \A i \in 1..Len(s) : IndexIn(CharAt(s, i), Digits) > 0

RECURSIVE DigitsValue(_)
DigitsValue(s) ==
    IF s = "" THEN 0
    ELSE DigitsValue(SubSeq(s, 1, Len(s) - 1)) * 10
            + (IndexIn(CharAt(s, Len(s)), Digits) - 1)

Number(v) ==
    IF v.t = "number" THEN v
    ELSE IF v.t = "string" /\ IsDigits(v.v) THEN Num(DigitsValue(v.v))
    ELSE NaN

\* String(v) for a number or NaN
String(v) == IF v.t = "number" THEN NumToString(v.v) ELSE "NaN"

\* Number(process.env.PROXY_PORT) || 8080
PORT(env) == LET n == Number(env) IN IF Falsy(n) THEN DefaultPort ELSE n.v

\* dotenv.config(): a variable of the .env file is loaded unless the
\* environment already has it.
dotenvConfig(env, file) == IF env = Undefined THEN file ELSE env

\* process.argv and Array.prototype.indexOf, positions counted from 0
ProcessArgv(args) == <<"node", "universal-proxy-server">> \o args

indexOf(a, x) ==
    IF \E i \in 1..Len(a) : a[i] = x
    THEN (CHOOSE i \in 1..Len(a) : a[i] = x /\ \A j \in 1..(i - 1) : a[j] # x) - 1
    ELSE -1

\* a[i] with positions counted from 0; undefined past the end
At(a, i) == IF i + 1 \in 1..Len(a) THEN Str(a[i + 1]) ELSE Undefined

\* The entrypoint that scans process.argv: PROXY_PORT after its if statement.
argvEntry(env, args) ==
    LET a == ProcessArgv(args)
        portArgIndex == indexOf(a, "--port")
    IN  IF portArgIndex > -1 /\ ~Falsy(At(a, portArgIndex + 1))
        THEN At(a, portArgIndex + 1)
        ELSE env

\* yargs(hideBin(process.argv)).option('port', ..).parseSync().port : the
\* value after --port or -p coerced to a number, the default when the option
\* is absent or has no value.
yargsPort(args) ==
    LET i == IF indexOf(args, "--port") > -1 THEN indexOf(args, "--port")
             ELSE indexOf(args, "-p")
    IN  IF i = -1 \/ At(args, i + 1) = Undefined
        THEN Num(YargsDefaultPort)
        ELSE Number(At(args, i + 1))

\* The entrypoint that uses yargs: PROXY_PORT after its assignment.
yargsEntry(env, args) == Str(String(yargsPort(args)))

\* What the process can be started with.
Entrypoints  == {"argv", "yargs"}
CommandLines == { <<>>, <<"--port">>, <<"--port", "9000">>, <<"-p", "9000">>,
                  <<"--port", "abc">> }
Environments == { Undefined, Str("4000"), Str("abc"), Str("") }
DotenvFiles  == { Undefined, Str("5000") }

\* main() is not part of the sources at hand: it starts listening either on
\* the PORT the core computed when it was loaded, or on the port it computes
\* from the environment when called.
MainReads == {"load", "call"}

main(p) == IF p.mainReads = "load" THEN p.PORT ELSE PORT(p.env)

InitCli ==
    /\ clients = {}
    /\ fetchImpl = "node-fetch"
    /\ InitRequests
    /\ proc \in [ pc : {"start"}, entry : Entrypoints, args : CommandLines,
                  environ : Environments, dotenvFile : DotenvFiles,
                  env : {Undefined}, PORT : {0}, mainReads : MainReads,
                  listening : {0} ]
    /\ proc.env = Undefined

\* The process starts: process.env has the environment's PROXY_PORT.
Start ==
    /\ proc.pc = "start"
    /\ proc' = [proc EXCEPT !.pc = "import", !.env = proc.environ]
    /\ UNCHANGED <<clients, fetchImpl, pc, req, res, calls, proxyRes, stream, outcome>>

\* import './proxy' : the core module is evaluated before the body of the
\* entrypoint; it loads .env and computes PORT.
ImportCore ==
    /\ proc.pc = "import"
    /\ LET env == dotenvConfig(proc.env, proc.dotenvFile)
       IN  proc' = [proc EXCEPT !.pc = "entry", !.env = env, !.PORT = PORT(env)]
    /\ UNCHANGED <<clients, fetchImpl, pc, req, res, calls, proxyRes, stream, outcome>>

\* The body of the entrypoint that scans process.argv, up to main().
ArgvEntry ==
    /\ proc.pc = "entry" /\ proc.entry = "argv"
    /\ proc' = [proc EXCEPT !.pc = "main", !.env = argvEntry(proc.env, proc.args)]
    /\ UNCHANGED <<clients, fetchImpl, pc, req, res, calls, proxyRes, stream, outcome>>

\* The body of the entrypoint that uses yargs, up to main().
YargsEntry ==
    /\ proc.pc = "entry" /\ proc.entry = "yargs"
    /\ proc' = [proc EXCEPT !.pc = "main", !.env = yargsEntry(proc.env, proc.args)]
    /\ UNCHANGED <<clients, fetchImpl, pc, req, res, calls, proxyRes, stream, outcome>>

\* main() : the server starts listening.
Main ==
    /\ proc.pc = "main"
    /\ proc' = [proc EXCEPT !.pc = "listening", !.listening = main(proc)]
    /\ UNCHANGED <<clients, fetchImpl, pc, req, res, calls, proxyRes, stream, outcome>>

NextCli ==
    \/ Start
    \/ ImportCore
    \/ ArgvEntry
    \/ YargsEntry
    \/ Main

\* The server started from the command line.
SpecCli == InitCli /\ [][NextCli]_vars

-----------------------------------------------------------------------------
(* Properties *)

Handled(r)   == pc[r] # "idle"
UrlMissing(r) == req[r].url = Undefined \/ req[r].url = Str("")
Resolved(r)  == proxyRes[r].settled = "resolved"
Rejected(r)  == proxyRes[r].settled = "rejected"

\* The headers of a response as a set of <<lower-cased name, value>>
HeaderSet(rs) == { <<k, rs.headers[k][2]>> : k \in DOMAIN rs.headers }

CorsTriad ==
    {"access-control-allow-origin", "access-control-allow-headers",
     "access-control-allow-methods"}

HasCorsTriad(rs) == \A c \in CorsTriad : <<c, "*">> \in HeaderSet(rs)

C2_PreflightIssuesNoCall ==
    \A r \in Reqs :
        (Handled(r) /\ req[r].method = "OPTIONS" /\ ~UrlMissing(r)) =>
            Len(calls[r]) = 0

\* C3: an OPTIONS request with a non-empty url is answered 204 with an empty
\* body and the three CORS headers set to *, whatever the target would answer.
C3_PreflightAnswered204 ==
    \A r \in Reqs :
        (pc[r] = "done" /\ req[r].method = "OPTIONS" /\ ~UrlMissing(r)) =>
            /\ res[r].statusCode = 204
            /\ res[r].body = <<>>
            /\ HasCorsTriad(res[r])

\* C4: once the outbound call has resolved, the headers of the client response
\* are the target's headers without those named like one of the three CORS
\* headers in any letter case, plus the three CORS headers with value *; every
\* other target header is there under its own name with its own value.
RelayedHeaderSet(t) ==
    { <<toLowerCase(t.headers[i][1]), t.headers[i][2]>> :
        i \in { j \in 1..Len(t.headers) : toLowerCase(t.headers[j][1]) \notin CorsTriad } }
    \cup { <<c, "*">> : c \in CorsTriad }

C4_RelayedHeaders ==
    \A r \in Reqs :
        Resolved(r) =>
            /\ HeaderSet(res[r]) = RelayedHeaderSet(proxyRes[r])
            /\ \A i \in 1..Len(proxyRes[r].headers) :
                 LET h == proxyRes[r].headers[i]
                 IN  toLowerCase(h[1]) \notin CorsTriad
                        => /\ toLowerCase(h[1]) \in DOMAIN res[r].headers
                           /\ res[r].headers[toLowerCase(h[1])] = h

C4_Witness ==
    \E r \in Reqs :
        /\ Resolved(r)
        /\ pc[r] = "done"
        /\ \E i \in 1..Len(proxyRes[r].headers) :
             proxyRes[r].headers[i] = <<"Access-Control-Allow-Origin", "abc">>
        /\ \E i \in 1..Len(proxyRes[r].headers) :
             proxyRes[r].headers[i] = <<"x-proxy-test", "42">>
        /\ <<"x-proxy-test", "42">> \in HeaderSet(res[r])

\* C5: every completed response on /proxy, whatever its outcome, carries the
\* three CORS headers with value *.
C5_EveryResponseHasCors ==
    \A r \in Reqs : res[r].ended => HasCorsTriad(res[r])

C7_BodyIffJsonMethod ==
    \A r \in Reqs :
        \A i \in 1..Len(calls[r]) :
            LET o    == calls[r][i].options
                inb  == req[r].headers
                json == toUpperCase(req[r].method) \in {"POST", "PUT", "PATCH"}
            IN  /\ (o.body # Undefined) <=> json
                /\ json =>
                     /\ o.body = Str(JSONtext(req[r].body))
                     /\ {n \in DOMAIN o.headers : toLowerCase(n) = "content-type"}
                            = {"content-type"}
                     /\ o.headers["content-type"] = "application/json"
                /\ ~json =>
                     /\ ("content-type" \in DOMAIN o.headers) <=> ("content-type" \in DOMAIN inb)
                     /\ "content-type" \in DOMAIN inb
                            => o.headers["content-type"] = inb["content-type"]

\* C8: once the outbound call has resolved, the client's status code is the
\* target's, for every status, and what the client receives is the target's
\* body, never a 'Proxy error' text.
C8_StatusPassedThrough ==
    \A r \in Reqs :
        Resolved(r) =>
            /\ res[r].statusCode = proxyRes[r].status
            /\ Len(res[r].body) <= Len(proxyRes[r].body)
            /\ \A i \in 1..Len(res[r].body) : res[r].body[i] = proxyRes[r].body[i]

C8_Witness ==
    \E r \in Reqs :
        /\ Resolved(r)
        /\ pc[r] = "done"
        /\ proxyRes[r].status = 500
        /\ res[r].statusCode = 500
        /\ res[r].body = <<"he", "llo">>

\* C9: once the outbound call has rejected, the response is completed with
\* status 500 and the body 'Proxy error: ' followed by the error's message, or
\* by 'Unknown proxy error' when the rejection value is not an error; the call
\* is not issued again.
C9_RejectionAnswered500 ==
    \A r \in Reqs :
        Rejected(r) =>
            LET e == proxyRes[r].error
            IN  /\ pc[r] = "done"
                /\ res[r].ended
                /\ res[r].statusCode = 500
                /\ res[r].body =
                     << IF e.t = "error" THEN "Proxy error: " \o e.message
                        ELSE "Proxy error: Unknown proxy error" >>
                /\ Len(calls[r]) = 1

C9_Witness ==
    \E r \in Reqs :
        /\ Rejected(r)
        /\ proxyRes[r].error = Err("failfetch")
        /\ res[r].body = <<"Proxy error: failfetch">>

\* C10: the chunks delivered to the client are the target's chunks, the same
\* ones in the same order; the response is ended exactly when the target's
\* stream has ended, and then the whole body has been delivered; a target
\* response without a body is ended with an empty body.
C10_BodyRelayedExactly ==
    \A r \in Reqs :
        Resolved(r) =>
            LET B == proxyRes[r].body
            IN  IF proxyRes[r].hasBody
                THEN /\ Len(res[r].body) <= Len(B)
                     /\ res[r].body = SubSeq(B, 1, Len(res[r].body))
                     /\ res[r].ended <=> (stream[r].state = "ended")
                     /\ res[r].ended => res[r].body = B
                ELSE res[r].ended /\ res[r].body = <<>>

C10_Witness ==
    \E r \in Reqs :
        /\ Resolved(r)
        /\ proxyRes[r].hasBody
        /\ proxyRes[r].body = <<"llo", "he">>
        /\ res[r].ended
        /\ res[r].body = <<"llo", "he">>

\* The body is the single text 'Proxy error: ...' and nothing of the target's.
OnlyErrorText(rs) ==
    /\ Len(rs.body) = 1
    /\ Len(rs.body[1]) >= 13
    /\ SubSeq(rs.body[1], 1, 13) = "Proxy error: "

\* The target headers the handler copied before a step threw.
CopiedBeforeThrow(t) ==
    LET bad == { i \in 1..Len(t.headers) : t.headers[i] = <<"x-bad", "a\nb">> }
        upto == IF bad = {} THEN Len(t.headers)
                ELSE (CHOOSE i \in bad : \A k \in bad : i <= k) - 1
    IN  { t.headers[i] : i \in { j \in 1..upto : toLowerCase(t.headers[j][1]) \notin CorsTriad } }

Settled(r) ==
    /\ pc[r] # "fetching"
    /\ stream[r].state # "flowing"

\* C12: every invocation whose outbound call has settled and whose target
\* stream has terminated, by ending or by erroring, has completed its response
\* in exactly one of the outcomes 400-missing-url, 204-preflight-ok,
\* success-passthrough and error-500; no response is completed twice.
C12_EveryRequestCompletedOnce ==
    \A r \in Reqs :
        Handled(r) =>
            /\ res[r].ends <= 1
            /\ Settled(r) =>
                 /\ res[r].ended
                 /\ res[r].ends = 1
                 /\ outcome[r] \in {"missing", "preflight", "passthrough", "error"}
                 /\ outcome[r] = "missing" => res[r].statusCode = 400
                 /\ outcome[r] = "preflight" => res[r].statusCode = 204
                 /\ outcome[r] = "error" => res[r].statusCode = 500
                 /\ outcome[r] = "passthrough" => res[r].statusCode = proxyRes[r].status

\* C13: when the first body chunk of a relayed response is written, the three
\* CORS headers, every copied target header and the status code are already
\* set; once a response has body chunks, no step changes its headers or its
\* status.
C13_HeadersBeforeBody ==
    [][\A r \in Reqs :
          /\ Len(res[r].body) > 0 =>
                /\ res'[r].headers = res[r].headers
                /\ res'[r].statusCode = res[r].statusCode
          /\ (Resolved(r) /\ Len(res[r].body) = 0 /\ Len(res'[r].body) > 0) =>
                /\ HasCorsTriad(res[r])
                /\ res[r].statusCode = proxyRes[r].status
                /\ \A i \in 1..Len(proxyRes[r].headers) :
                     LET h == proxyRes[r].headers[i]
                     IN  toLowerCase(h[1]) \notin CorsTriad =>
                            /\ toLowerCase(h[1]) \in DOMAIN res[r].headers
                            /\ res[r].headers[toLowerCase(h[1])] = h
      ]_vars

C13_Witness ==
    \E r \in Reqs :
        /\ pc[r] = "piping"
        /\ proxyRes[r].body = <<"he", "llo">>
        /\ res[r].body = <<"he">>
        /\ HasCorsTriad(res[r])
        /\ <<"x-proxy-test", "42">> \in HeaderSet(res[r])
        /\ res[r].statusCode = 201

\* The chunks ws written one after the other to the response rs.
RECURSIVE writeAll(_, _)
writeAll(rs, ws) ==
    IF ws = <<>> THEN rs ELSE writeAll(write(rs, Head(ws)), Tail(ws))

\* The response of request r computed from nothing but r's own request, the
\* settlement of r's own outbound call and the position of r's own body stream.
OwnResponse(r) ==
    IF pc[r] = "idle" THEN NewResponse
    ELSE IF Dispatch(req[r].method) = "preflight" THEN preflight(NewResponse)
    ELSE IF Falsy(req[r].url) THEN send(status(NewResponse, 400), MissingUrlMessage)
    ELSE IF Rejected(r) THEN proxyError(NewResponse, proxyRes[r].error)
    ELSE IF ~Resolved(r) THEN NewResponse
    ELSE LET head    == afterFetch(NewResponse, proxyRes[r]).res
             written == writeAll(head, SubSeq(proxyRes[r].body, 1, stream[r].read))
         IN  IF stream[r].state = "ended" THEN end(written) ELSE written

\* C14: with two requests in flight, under every interleaving each response
\* is the one determined by that request's own input and its own target's
\* response, and whatever the other request is doing (call pending, body
\* still streaming), a request that has not reached its terminal outcome can
\* take its next step.
C14_ConcurrentRequestsIndependent ==
    \A r \in clients :
        /\ res[r] = OwnResponse(r)
        /\ pc[r] = "idle" => ENABLED Handle(r)
        /\ pc[r] = "fetching" => ENABLED FetchResolve(r) /\ ENABLED FetchReject(r)
        /\ (pc[r] = "piping" /\ stream[r].state = "flowing") =>
               ENABLED (PipeData(r) \/ PipeEnd(r))

C14_Witness ==
    /\ clients = Reqs
    /\ pc[1] = "fetching"
    /\ pc[2] = "done" /\ outcome[2] = "passthrough"
    /\ req[1] # req[2]
    /\ res[2].statusCode = 500 /\ res[2].body = <<"he", "llo">> /\ res[2].ends = 1

\* C15: a request that is not OPTIONS and has a non-empty url causes exactly
\* one outbound call from the moment it is handled to its end, whether the
\* call rejects or a response has been started; the call goes to the url value
\* as received and with the inbound method as received.
C15_ExactlyOneOutboundCall ==
    \A r \in Reqs :
        (Handled(r) /\ req[r].method # "OPTIONS" /\ ~UrlMissing(r)) =>
            /\ Len(calls[r]) = 1
            /\ calls[r][1].url = req[r].url.v
            /\ calls[r][1].options.method = req[r].method

C15_Witness ==
    \E r \in Reqs :
        /\ pc[r] = "done" /\ Rejected(r)
        /\ req[r].method = "DELETE"
        /\ Len(calls[r]) = 1
        /\ calls[r][1].url = "https://example.com"
        /\ calls[r][1].options.method = "DELETE"

\* The value given with --port, or undefined
FlagValue(args) ==
    IF indexOf(args, "--port") > -1 THEN At(args, indexOf(args, "--port") + 1)
    ELSE Undefined

ValidPort(v) == v.t = "string" /\ v.v # "" /\ IsDigits(v.v) /\ DigitsValue(v.v) > 0

\* C16: the server listens on the value of --port when the flag is given with
\* a number; without the flag, on PROXY_PORT of the environment when that is a
\* valid number, and on 8080 otherwise.
C16_PortPrecedence ==
    proc.pc = "listening" =>
        LET flag    == FlagValue(proc.args)
            environ == dotenvConfig(proc.environ, proc.dotenvFile)
        IN  /\ ValidPort(flag) => proc.listening = DigitsValue(flag.v)
            /\ proc.args = <<>> =>
                 proc.listening = IF ValidPort(environ) THEN DigitsValue(environ.v)
                                  ELSE DefaultPort

====
